---- MODULE Spec2Model ----
(***************************************************************************)
(* A model of the URL liveness checker of "Recon Script.py":               *)
(* check_url (one probe: semaphore, HEAD, GET fallback) and                *)
(* bulk_check_urls (task creation and the gather barrier).                 *)
(*                                                                         *)
(* asyncio is cooperative: the code between two awaits runs atomically,    *)
(* so every action below is the stretch of code from one suspension point  *)
(* of a task to the next.  The suspension points of check_url are the      *)
(* semaphore acquire, the HEAD request and the GET request.                *)
(***************************************************************************)
EXTENDS Integers, Sequences, FiniteSets, TLC

\* ---------------------------------------------------------------- bounds
MaxUrls == 3
MaxBudget == 2

\* ------------------------------------------------------------ data model
\* Python's None in the "status" field of an outcome; HTTP status codes and
\* the status attribute of ClientResponseError are never negative.
None == -1

\* The URLs a run is called with.  main() hands bulk_check_urls a list
\* without duplicates (the dedupe loop) that all start with http(s)://.
UrlPool == <<"http://a/", "https://b/", "http://c/", "https://d/",
             "http://e/", "https://f/", "http://g/", "https://h/">>

\* Where a redirect chain may end (resp.url after allow_redirects=True).
RedirectTarget == "https://www.example/"

\* A response of the server as the client sees it: resp.status, resp.url.
Responses(u) ==
    { [status |-> 200, url |-> u],
      [status |-> 404, url |-> RedirectTarget] }

\* Exceptions a request can raise.  Only aiohttp.ClientResponseError (and
\* its subclasses, e.g. TooManyRedirects) carries a status attribute;
\* asyncio.TimeoutError is raised without arguments.
ResponseErrors ==
    { [kind |-> "ClientResponseError", status |-> 0, message |-> "redirects"] }

OtherErrors ==
    { [kind |-> "ClientConnectorError", message |-> "Cannot connect to host"],
      [kind |-> "TimeoutError", message |-> ""] }

Exceptions == ResponseErrors \cup OtherErrors

\* str(e): ClientResponseError formats "<status>, message='<message>'",
\* every other exception yields its argument, "" when it has none.
Str(e) ==
    IF e.kind = "ClientResponseError"
    THEN ToString(e.status) \o ", message='" \o e.message \o "'"
    ELSE e.message

\* getattr(e, 'status', None)
GetAttrStatus(e) == IF "status" \in DOMAIN e THEN e.status ELSE None

\* Variant: a timeout of the HEAD request is handled like a response error.
IsClientResponseErrorOrTimeout(e) ==
    e.kind \in {"ClientResponseError", "TimeoutError"}

\* The except clause that handles an exception of the HEAD request:
\* "except aiohttp.ClientResponseError" comes first, "except Exception" after.
IsClientResponseError(e) == e.kind = "ClientResponseError"

\* Variants of the dictionaries below: the requested URL in place of the
\* response's URL, a fallback response recorded as a failure, a failure
\* recorded without its description.
HeadOkOutcomeRequestUrl(u, resp) ==
    [url |-> u, status |-> resp.status, final_url |-> u]

GetOkOutcomeAsFailure(u, resp) ==
    [url |-> u, status |-> None, error |-> "HEAD failed"]

GetErrorOutcomeNoError(u, e2) ==
    [url |-> u, status |-> None]

\* The dictionaries check_url returns.
HeadOkOutcome(u, resp) ==
    [url |-> u, status |-> resp.status, final_url |-> resp.url]

HeadResponseErrorOutcome(u, e) ==
    [url |-> u, status |-> GetAttrStatus(e), error |-> Str(e)]

GetOkOutcome(u, resp) ==
    [url |-> u, status |-> resp.status, final_url |-> resp.url]

GetErrorOutcome(u, e2) ==
    [url |-> u, status |-> None, error |-> Str(e2)]

\* Placeholders of the history variables.
NoOutcome == [pending |-> TRUE]
NoResult == [kind |-> "none"]

IsResponse(r) == "url" \in DOMAIN r
IsException(r) == "message" \in DOMAIN r

\* ----------------------------------------------------------------- state
VARIABLES
    urls,        \* the argument of bulk_check_urls
    budget,      \* the initial value of the semaphore
    mainpc,      \* position of bulk_check_urls: "call", "gather", "returned"
    semValue,    \* asyncio.Semaphore._value: the free units
    waiters,     \* asyncio.Semaphore._waiters: tasks queued in acquire()
    pc,          \* position of each check_url task
    headCalls,   \* number of session.head calls per task
    getCalls,    \* number of session.get calls per task
    headResult,  \* what the HEAD request of a task ended with
    getResult,   \* what the GET request of a task ended with
    acquired,    \* number of units a task acquired
    released,    \* number of units a task released
    outcome,     \* the value a task returned
    results,     \* the value bulk_check_urls returned
    args,           \* main: the parsed command line
    mpc,            \* main: position of main()
    result,         \* main: the report dictionary
    toolRun,        \* main: how the waybackurls subprocess ended
    cdxResponse,    \* main: what the CDX API answered
    wayback_urls,   \* main: the candidate URLs
    uniq,           \* main: the deduplicated, capped URLs
    urls_to_check,  \* main: the URLs handed to bulk_check_urls
    written,        \* main: the content of the output file
    error           \* main: the exception that ended the run

\* The variables of main(); the checker never touches them.
mvars == <<args, mpc, result, toolRun, cdxResponse, wayback_urls, uniq,
           urls_to_check, written, error>>

vars == <<urls, budget, mainpc, semValue, waiters, pc, headCalls, getCalls,
          headResult, getResult, acquired, released, outcome, results,
          mvars>>

\* Placeholders of main()'s variables.
EmptyDict == <<>>
NoArgs == [use_wayback_bin |-> FALSE, run_dig |-> FALSE, max_wayback |-> 0]
NoRun == [kind |-> "not run"]
NotQueried == [kind |-> "not queried"]
NoFile == [missing |-> TRUE]
NoError == [exc |-> "", step |-> ""]

\* main() is not running: bulk_check_urls is called on its own.
MainIdle ==
    /\ args = NoArgs
    /\ mpc = "none"
    /\ result = EmptyDict
    /\ toolRun = NoRun
    /\ cdxResponse = NotQueried
    /\ wayback_urls = <<>>
    /\ uniq = <<>>
    /\ urls_to_check = <<>>
    /\ written = NoFile
    /\ error = NoError

N == Len(urls)
Tasks == 1..N

\* --------------------------------------------------------- the semaphore
\* Variant: the test for a free unit is off by one.
SemLockedOffByOne(value, queue) == value < 0 \/ queue # <<>>

\* Semaphore.locked(): no free unit, or somebody is queued already.
SemLocked(value, queue) == value = 0 \/ queue # <<>>

\* Semaphore._wake_up_next(): the first queued task that was not woken yet.
Unwoken(queue, p) == SelectSeq(queue, LAMBDA t : p[t] = "waiting")

\* Variant: release() never wakes a queued task.
WakeUpNextNever(queue, p) == 0

WakeUpNext(queue, p) ==
    IF Unwoken(queue, p) = <<>> THEN 0 ELSE Head(Unwoken(queue, p))

\* Variant: release() does not give the unit back.
ReleasedValueNoIncrement(value, woken) == value

\* Semaphore.release(): _value += 1, then _wake_up_next() takes the unit
\* for the task it wakes (_value -= 1; fut.set_result(True)).
ReleasedValue(value, woken) == IF woken = 0 THEN value + 1 ELSE value

\* The end of "async with semaphore" in task i, which finishes with
\* outcome o: __aexit__ releases the unit, then the task returns.
Exit(i, o) ==
    LET woken == WakeUpNext(waiters, pc) IN
    /\ semValue' = ReleasedValue(semValue, woken)
    /\ pc' = [t \in Tasks |->
                 IF t = i THEN "done"
                 ELSE IF t = woken THEN "woken"
                 ELSE pc[t]]
    /\ released' = [released EXCEPT ![i] = @ + 1]
    /\ outcome' = [outcome EXCEPT ![i] = o]
    /\ UNCHANGED waiters

\* ------------------------------------------------------------------ init
\* The arguments of a run: up to MaxUrls URLs, a budget up to MaxBudget.
Inputs == { SubSeq(UrlPool, 1, n) : n \in 0..MaxUrls }

Budgets == 1..MaxBudget

InitWith(us, b) ==
    /\ MainIdle
    /\ urls = us
    /\ budget = b
    /\ mainpc = "call"
    /\ semValue = 0
    /\ waiters = <<>>
    /\ pc = [t \in Tasks |-> "none"]
    /\ headCalls = [t \in Tasks |-> 0]
    /\ getCalls = [t \in Tasks |-> 0]
    /\ headResult = [t \in Tasks |-> NoResult]
    /\ getResult = [t \in Tasks |-> NoResult]
    /\ acquired = [t \in Tasks |-> 0]
    /\ released = [t \in Tasks |-> 0]
    /\ outcome = [t \in Tasks |-> NoOutcome]
    /\ results = <<>>

Init == \E us \in Inputs, b \in Budgets : InitWith(us, b)

\* --------------------------------------------------------------- actions
\* bulk_check_urls up to its await: the semaphore, the session, one task
\* per URL.
CreateTasks ==
    /\ mainpc = "call"
    /\ mainpc' = "gather"
    /\ semValue' = budget
    /\ pc' = [t \in Tasks |-> "created"]
    /\ UNCHANGED <<mvars, urls, budget, waiters, headCalls, getCalls, headResult,
                   getResult, acquired, released, outcome, results>>

\* The event loop runs the first step of the tasks in creation order.
FirstStep(i) ==
    /\ mainpc = "gather"
    /\ pc[i] = "created"
    /\ \A j \in 1..(i - 1) : pc[j] # "created"

\* First step of task i, semaphore free: acquire returns at once and the
\* task suspends in session.head.
EnterAcquire(i) ==
    /\ FirstStep(i)
    /\ ~SemLocked(semValue, waiters)
    /\ semValue' = semValue - 1
    /\ acquired' = [acquired EXCEPT ![i] = @ + 1]
    /\ headCalls' = [headCalls EXCEPT ![i] = @ + 1]
    /\ pc' = [pc EXCEPT ![i] = "head"]
    /\ UNCHANGED <<mvars, urls, budget, mainpc, waiters, getCalls, headResult,
                   getResult, released, outcome, results>>

\* First step of task i, semaphore locked: the task queues and suspends.
EnterWait(i) ==
    /\ FirstStep(i)
    /\ SemLocked(semValue, waiters)
    /\ waiters' = Append(waiters, i)
    /\ pc' = [pc EXCEPT ![i] = "waiting"]
    /\ UNCHANGED <<mvars, urls, budget, mainpc, semValue, headCalls, getCalls,
                   headResult, getResult, acquired, released, outcome,
                   results>>

\* A woken task runs again: it leaves the queue, owns the unit that
\* release() took for it and suspends in session.head.
Resume(i) ==
    /\ mainpc = "gather"
    /\ pc[i] = "woken"
    /\ waiters' = SelectSeq(waiters, LAMBDA t : t # i)
    /\ acquired' = [acquired EXCEPT ![i] = @ + 1]
    /\ headCalls' = [headCalls EXCEPT ![i] = @ + 1]
    /\ pc' = [pc EXCEPT ![i] = "head"]
    /\ UNCHANGED <<mvars, urls, budget, mainpc, semValue, getCalls, headResult,
                   getResult, released, outcome, results>>

\* The HEAD request returns a response.
HeadOk(i) ==
    /\ pc[i] = "head"
    /\ \E resp \in Responses(urls[i]) :
          /\ headResult' = [headResult EXCEPT ![i] = resp]
          /\ Exit(i, HeadOkOutcome(urls[i], resp))
    /\ UNCHANGED <<mvars, urls, budget, mainpc, headCalls, getCalls, getResult,
                   acquired, results>>

\* The HEAD request raises aiohttp.ClientResponseError.
HeadResponseError(i) ==
    /\ pc[i] = "head"
    /\ \E e \in Exceptions :
          /\ IsClientResponseError(e)
          /\ headResult' = [headResult EXCEPT ![i] = e]
          /\ Exit(i, HeadResponseErrorOutcome(urls[i], e))
    /\ UNCHANGED <<mvars, urls, budget, mainpc, headCalls, getCalls, getResult,
                   acquired, results>>

\* Variant: the HEAD request is tried a second time before the fallback.
HeadOtherErrorRetry(i) ==
    /\ pc[i] = "head"
    /\ \E e \in Exceptions :
          /\ ~IsClientResponseError(e)
          /\ headResult' = [headResult EXCEPT ![i] = e]
    /\ IF headCalls[i] < 2
       THEN /\ headCalls' = [headCalls EXCEPT ![i] = @ + 1]
            /\ UNCHANGED <<getCalls, pc>>
       ELSE /\ getCalls' = [getCalls EXCEPT ![i] = @ + 1]
            /\ pc' = [pc EXCEPT ![i] = "get"]
            /\ UNCHANGED headCalls
    /\ UNCHANGED <<mvars, urls, budget, mainpc, semValue, waiters,
                   getResult, acquired, released, outcome, results>>

\* Variant: the unit is released before the GET fallback is issued.
HeadOtherErrorOutsideSem(i) ==
    LET woken == WakeUpNext(waiters, pc) IN
    /\ pc[i] = "head"
    /\ \E e \in Exceptions :
          /\ ~IsClientResponseError(e)
          /\ headResult' = [headResult EXCEPT ![i] = e]
    /\ semValue' = ReleasedValue(semValue, woken)
    /\ released' = [released EXCEPT ![i] = @ + 1]
    /\ getCalls' = [getCalls EXCEPT ![i] = @ + 1]
    /\ pc' = [t \in Tasks |->
                 IF t = i THEN "get"
                 ELSE IF t = woken THEN "woken"
                 ELSE pc[t]]
    /\ UNCHANGED <<mvars, urls, budget, mainpc, waiters, headCalls,
                   getResult, acquired, outcome, results>>

\* The HEAD request raises any other exception: the task issues the GET
\* request and suspends in it, still inside "async with semaphore".
HeadOtherError(i) ==
    /\ pc[i] = "head"
    /\ \E e \in Exceptions :
          /\ ~IsClientResponseError(e)
          /\ headResult' = [headResult EXCEPT ![i] = e]
    /\ getCalls' = [getCalls EXCEPT ![i] = @ + 1]
    /\ pc' = [pc EXCEPT ![i] = "get"]
    /\ UNCHANGED <<mvars, urls, budget, mainpc, semValue, waiters, headCalls,
                   getResult, acquired, released, outcome, results>>

\* The GET request returns a response.
GetOk(i) ==
    /\ pc[i] = "get"
    /\ \E resp \in Responses(urls[i]) :
          /\ getResult' = [getResult EXCEPT ![i] = resp]
          /\ Exit(i, GetOkOutcome(urls[i], resp))
    /\ UNCHANGED <<mvars, urls, budget, mainpc, headCalls, getCalls, headResult,
                   acquired, results>>

\* The GET request raises an exception of any kind.
GetError(i) ==
    /\ pc[i] = "get"
    /\ \E e2 \in Exceptions :
          /\ getResult' = [getResult EXCEPT ![i] = e2]
          /\ Exit(i, GetErrorOutcome(urls[i], e2))
    /\ UNCHANGED <<mvars, urls, budget, mainpc, headCalls, getCalls, headResult,
                   acquired, results>>

\* Variants: gather returns with the first finished task; gather keeps only
\* the outcomes that have a status.
GatherReadyFirstCompleted(p) == \E t \in DOMAIN p : p[t] = "done"

GatherResultsAliveOnly(out) ==
    SelectSeq([k \in 1..Len(urls) |-> out[k]], LAMBDA o : o.status # None)

\* Variant: gather lists the values in the reverse order of its arguments.
GatherResultsReversed(out) == [k \in 1..Len(urls) |-> out[Len(urls) + 1 - k]]

\* asyncio.gather(*tasks) is done when every task is done; its result
\* lists the tasks' values in the order of its arguments.
GatherReady(p) == \A t \in DOMAIN p : p[t] = "done"

GatherResults(out) == [k \in 1..Len(urls) |-> out[k]]

Gather ==
    /\ mainpc = "gather"
    /\ GatherReady(pc)
    /\ results' = GatherResults(outcome)
    /\ mainpc' = "returned"
    /\ UNCHANGED <<mvars, urls, budget, semValue, waiters, pc, headCalls, getCalls,
                   headResult, getResult, acquired, released, outcome>>

Next ==
    \/ CreateTasks
    \/ \E i \in Tasks : EnterAcquire(i)
    \/ \E i \in Tasks : EnterWait(i)
    \/ \E i \in Tasks : Resume(i)
    \/ \E i \in Tasks : HeadOk(i)
    \/ \E i \in Tasks : HeadResponseError(i)
    \/ \E i \in Tasks : HeadOtherError(i)
    \/ \E i \in Tasks : GetOk(i)
    \/ \E i \in Tasks : GetError(i)
    \/ Gather

Spec == Init /\ [][Next]_vars

\* Fairness: the event loop runs every ready task, every request ends
\* (with a response, an exception or a timeout), gather resumes its caller.
TaskIds == 1..MaxUrls

TaskStep(i) ==
    /\ i \in Tasks
    /\ \/ EnterAcquire(i)
       \/ EnterWait(i)
       \/ Resume(i)
       \/ HeadOk(i)
       \/ HeadResponseError(i)
       \/ HeadOtherError(i)
       \/ GetOk(i)
       \/ GetError(i)

Fairness ==
    /\ WF_vars(CreateTasks)
    /\ WF_vars(Gather)
    /\ \A i \in TaskIds : WF_vars(TaskStep(i))

FairSpec == Spec /\ Fairness

\* The end-to-end scenario of the specification: five URLs, a budget of two.
ScenarioUrls == SubSeq(UrlPool, 1, 5)

ScenarioInit == Init \/ InitWith(ScenarioUrls, 2)

SpecScenario == ScenarioInit /\ [][Next]_vars

\* ================================================================ main()
\* ------------------------------------------------------- Python values
\* Values that come out of r.json() or of a subprocess: strings, numbers
\* and lists, tagged with their Python type.
JStr(s) == [type |-> "str", val |-> s]

JNum(n) == [type |-> "int", val |-> ToString(n)]

JList(items) == [type |-> "list", val |-> items]

IsStr(v) == v.type = "str"

IsList(v) == v.type = "list"

\* hash(v) raises TypeError for a list.
Hashable(v) == ~IsList(v)

Range(seq) == { seq[k] : k \in 1..Len(seq) }

\* What a call ends with: a returned value or a raised exception.
Ok(v) == [exc |-> "", val |-> v]

Raised(exc) == [exc |-> exc, val |-> <<>>]

HasRaised(r) == r.exc # ""

\* ------------------------------------------------------------- strings
Whitespace == {" ", "\t", "\n", "\r"}

RECURSIVE LStrip(_)
LStrip(s) ==
    IF Len(s) > 0 /\ SubSeq(s, 1, 1) \in Whitespace
    THEN LStrip(SubSeq(s, 2, Len(s)))
    ELSE s

RECURSIVE RStrip(_)
RStrip(s) ==
    IF Len(s) > 0 /\ SubSeq(s, Len(s), Len(s)) \in Whitespace
    THEN RStrip(SubSeq(s, 1, Len(s) - 1))
    ELSE s

\* str.strip()
Strip(s) == RStrip(LStrip(s))

\* str.splitlines(): the lines without their line ends; a trailing line
\* end does not open another line.
RECURSIVE SplitFrom(_, _, _)
SplitFrom(s, k, cur) ==
    IF k > Len(s) THEN (IF cur = "" THEN <<>> ELSE <<cur>>)
    ELSE IF SubSeq(s, k, k) = "\n" THEN <<cur>> \o SplitFrom(s, k + 1, "")
    ELSE SplitFrom(s, k + 1, cur \o SubSeq(s, k, k))

SplitLines(s) == SplitFrom(s, 1, "")

\* str.startswith(prefix)
StartsWith(s, prefix) ==
    Len(s) >= Len(prefix) /\ SubSeq(s, 1, Len(prefix)) = prefix

\* ---------------------------------------------------------------- dns
DnsTypes == {"A", "AAAA", "NS", "MX", "TXT", "CNAME", "SOA"}

\* dns_enum: a record type whose lookup raises gets the empty list.
DnsEnum(failing) ==
    [t \in DnsTypes |-> IF t \in failing THEN <<>> ELSE <<"answer " \o t>>]

\* --------------------------------------------------- run_external_tool
\* How subprocess.run ends: the process exits, or subprocess.run raises;
\* only FileNotFoundError and TimeoutExpired are caught.
RunExternalTool(cmd, run) ==
    IF run.kind = "exit"
    THEN Ok([rc |-> run.rc, stdout |-> run.stdout, stderr |-> ""])
    ELSE IF run.kind = "FileNotFoundError"
    THEN Ok([rc |-> -1, stdout |-> "",
             stderr |-> "Command not found: " \o cmd[1]])
    ELSE IF run.kind = "TimeoutExpired"
    THEN Ok([rc |-> -2, stdout |-> "", stderr |-> "Timeout"])
    ELSE Raised(run.kind)

\* extract_urls_from_waybackstdout
ExtractUrlsFromWaybackStdout(output) ==
    LET lines == SplitLines(output)
        kept == SelectSeq(lines, LAMBDA line : Strip(line) # "")
    IN [k \in 1..Len(kept) |-> JStr(Strip(kept[k]))]

\* Variant: any output of the binary is taken, whatever its exit status.
BinarySucceededAnyStatus(wb) == wb.stdout # ""

\* wb["rc"] >= 0 and wb["stdout"]
BinarySucceeded(wb) == wb.rc >= 0 /\ wb.stdout # ""

\* --------------------------------------------- get_wayback_urls_via_cdx
\* i == 0 and isinstance(row, list) and "original" in row
IsHeaderRow(i, row) == i = 0 /\ IsList(row) /\ JStr("original") \in Range(row.val)

\* The loop over the rows; row[0] of an empty list raises IndexError.
RECURSIVE CdxRows(_, _, _)
CdxRows(data, k, acc) ==
    IF k > Len(data) THEN Ok(acc)
    ELSE LET row == data[k] IN
         IF IsHeaderRow(k - 1, row) THEN CdxRows(data, k + 1, acc)
         ELSE IF IsList(row)
              THEN IF Len(row.val) = 0 THEN Raised("IndexError")
                   ELSE CdxRows(data, k + 1, Append(acc, row.val[1]))
         ELSE IF IsStr(row) THEN CdxRows(data, k + 1, Append(acc, row))
         ELSE CdxRows(data, k + 1, acc)

\* "dedupe while preserving order"; an unhashable u raises TypeError.
RECURSIVE CdxDedupe(_, _, _)
CdxDedupe(list, k, out) ==
    IF k > Len(list) THEN Ok(out)
    ELSE IF ~Hashable(list[k]) THEN Raised("TypeError")
    ELSE IF list[k] \notin Range(out)
         THEN CdxDedupe(list, k + 1, Append(out, list[k]))
    ELSE CdxDedupe(list, k + 1, out)

\* The body of the try block, for a response of the API.
CdxTry(resp) ==
    IF resp.kind = "exception" THEN Raised("RequestException")
    ELSE IF resp.status_code # 200 THEN Ok(<<>>)
    ELSE IF resp.body.kind = "not json" THEN Raised("JSONDecodeError")
    ELSE IF ~IsList(resp.body.data) THEN Raised("TypeError")
    ELSE LET list == CdxRows(resp.body.data.val, 1, <<>>) IN
         IF HasRaised(list) THEN list ELSE CdxDedupe(list.val, 1, <<>>)

\* get_wayback_urls_via_cdx: "except Exception: return []".
GetWaybackUrlsViaCdx(resp) ==
    LET r == CdxTry(resp) IN IF HasRaised(r) THEN <<>> ELSE r.val

\* ------------------------------------------------- main: limit & dedupe
\* Variant: the cap is tested with > in place of >=.
LimitReachedOffByOne(list, max) == Len(list) > max

\* len(uniq) >= args.max_wayback
LimitReached(list, max) == Len(list) >= max

RECURSIVE UniqLoop(_, _, _, _)
UniqLoop(list, k, acc, max) ==
    IF k > Len(list) THEN acc
    ELSE LET next == IF list[k] \notin Range(acc)
                     THEN Append(acc, list[k]) ELSE acc
         IN IF LimitReached(next, max) THEN next
            ELSE UniqLoop(list, k + 1, next, max)

UniqLimit(list, max) == UniqLoop(list, 1, <<>>, max)

\* Variant: only http:// is accepted.
AcceptedSchemeHttpOnly(s) == StartsWith(s, "http://")

\* u.startswith("http://") or u.startswith("https://")
AcceptedScheme(s) == StartsWith(s, "http://") \/ StartsWith(s, "https://")

\* The list comprehension of urls_to_check: u.startswith raises
\* AttributeError when u is not a string.
UrlsToCheck(list) ==
    IF \E k \in 1..Len(list) : ~IsStr(list[k]) THEN Raised("AttributeError")
    ELSE Ok(SelectSeq(list, LAMBDA u : AcceptedScheme(u.val)))

\* ------------------------------------------------ the environment of main
MaxWayback == 2
MaxRecords == 3

Domain == "example.com"

ExampleUrl == "http://example.com/x"

\* How a subprocess can end.
ToolRuns ==
    { [kind |-> "exit", rc |-> 0,
       stdout |-> "http://a/\nhttp://a/\nhttp://b/\n"],
      [kind |-> "exit", rc |-> 0, stdout |-> ""],
      [kind |-> "exit", rc |-> 0, stdout |-> " \n"],
      [kind |-> "exit", rc |-> 1, stdout |-> "ftp://c/\n  https://b/  \n"],
      [kind |-> "exit", rc |-> -9, stdout |-> "http://a/\n"],
      [kind |-> "FileNotFoundError"],
      [kind |-> "TimeoutExpired"],
      [kind |-> "PermissionError"] }

\* The records a CDX answer is made of: the header and URLs in both
\* shapes, and records of other shapes.
CdxRecords ==
    { JList(<<JStr("original")>>), JStr("original"),
      JList(<<JStr(ExampleUrl)>>), JStr("https://b/"), JStr("ftp://c/"),
      JList(<<>>), JNum(123), JList(<<JNum(123)>>),
      JList(<<JList(<<JStr(ExampleUrl)>>)>>) }

RECURSIVE SeqsUpTo(_, _)
SeqsUpTo(S, n) ==
    IF n = 0 THEN {<<>>}
    ELSE LET shorter == SeqsUpTo(S, n - 1) IN
         shorter \cup { Append(q, x) : q \in shorter, x \in S }

HttpOk(data) ==
    [kind |-> "http", status_code |-> 200,
     body |-> [kind |-> "json", data |-> data]]

\* What the CDX API can answer.
CdxFailures ==
    { [kind |-> "exception"],
      [kind |-> "http", status_code |-> 503,
       body |-> [kind |-> "json", data |-> JList(<<JStr(ExampleUrl)>>)]],
      [kind |-> "http", status_code |-> 200, body |-> [kind |-> "not json"]],
      HttpOk(JNum(0)) }

CdxResponses ==
    CdxFailures \cup { HttpOk(JList(d)) : d \in SeqsUpTo(CdxRecords, MaxRecords) }

\* The inputs of a whole run of main(): a few subprocess ends and a few
\* answers of the API, one for each way the run can go.
MainToolRuns ==
    { r \in ToolRuns :
        \/ r.kind \in {"FileNotFoundError", "PermissionError"}
        \/ r.kind = "exit" /\ r.rc = 1 }

MainCdxResponses ==
    { [kind |-> "exception"],
      HttpOk(JList(<<JList(<<JStr("original")>>), JList(<<JStr(ExampleUrl)>>),
                     JList(<<JStr(ExampleUrl)>>)>>)),
      HttpOk(JList(<<JList(<<JStr(ExampleUrl)>>), JStr("https://b/")>>)),
      HttpOk(JList(<<JStr("ftp://c/"), JList(<<JStr(ExampleUrl)>>)>>)),
      HttpOk(JList(<<JStr("ftp://c/")>>)),
      HttpOk(JList(<<JList(<<JStr(ExampleUrl)>>), JList(<<JNum(123)>>)>>)) }

DnsFailureSets == { {}, {"AAAA", "CNAME"}, DnsTypes }

\* --------------------------------------------------------- main: init
ArgsSet ==
    [use_wayback_bin : BOOLEAN, run_dig : BOOLEAN,
     max_wayback : 1..MaxWayback]

\* The checker before main() calls it.
CheckerIdle ==
    /\ urls = <<>>
    /\ mainpc = "idle"
    /\ semValue = 0
    /\ waiters = <<>>
    /\ pc = <<>>
    /\ headCalls = <<>>
    /\ getCalls = <<>>
    /\ headResult = <<>>
    /\ getResult = <<>>
    /\ acquired = <<>>
    /\ released = <<>>
    /\ outcome = <<>>
    /\ results = <<>>

\* main() after parse_args and the construction of result.
MainStart(a, at) ==
    /\ args = a
    /\ mpc = at
    /\ result = [domain |-> Domain, dns |-> EmptyDict, wayback |-> <<>>,
                 wayback_check |-> <<>>, external |-> EmptyDict]
    /\ toolRun = NoRun
    /\ cdxResponse = NotQueried
    /\ wayback_urls = <<>>
    /\ uniq = <<>>
    /\ urls_to_check = <<>>
    /\ written = NoFile
    /\ error = NoError

MainInit ==
    /\ CheckerIdle
    /\ budget \in Budgets
    /\ \E a \in ArgsSet : MainStart(a, "dns")

\* ------------------------------------------------------ main: actions
checkerVars == <<urls, budget, mainpc, semValue, waiters, pc, headCalls,
                 getCalls, headResult, getResult, acquired, released,
                 outcome, results>>

\* An exception nobody catches ends main().
Abort(exc) ==
    /\ error' = [exc |-> exc, step |-> mpc]
    /\ mpc' = "aborted"

\* result["dns"] = dns_enum(domain)
Dns(failing) ==
    /\ mpc = "dns"
    /\ result' = [result EXCEPT !.dns = DnsEnum(failing)]
    /\ mpc' = "dig"
    /\ UNCHANGED <<args, toolRun, cdxResponse, wayback_urls, uniq,
                   urls_to_check, written, error, checkerVars>>

\* if args.run_dig: result["external"]["dig_A"] = run_external_tool(...)
Dig(run) ==
    LET out == RunExternalTool(<<"dig", "+short", Domain>>, run) IN
    /\ mpc = "dig"
    /\ IF ~args.run_dig
       THEN mpc' = "wayback" /\ UNCHANGED <<result, error>>
       ELSE IF HasRaised(out)
       THEN Abort(out.exc) /\ UNCHANGED result
       ELSE /\ result' = [result EXCEPT
                             !.external = ("dig_A" :> out.val) @@ @]
            /\ mpc' = "wayback"
            /\ UNCHANGED error
    /\ UNCHANGED <<args, toolRun, cdxResponse, wayback_urls, uniq,
                   urls_to_check, written, checkerVars>>

\* "Wayback: prefer binary if requested & available".
WaybackBin(run) ==
    LET wb == RunExternalTool(<<"waybackurls", Domain>>, run) IN
    /\ mpc = "wayback"
    /\ IF ~args.use_wayback_bin
       THEN /\ mpc' = "cdx"
            /\ UNCHANGED <<result, toolRun, wayback_urls, error>>
       ELSE /\ toolRun' = run
            /\ IF HasRaised(wb)
               THEN Abort(wb.exc) /\ UNCHANGED <<result, wayback_urls>>
               ELSE /\ mpc' = "cdx"
                    /\ UNCHANGED error
                    /\ IF BinarySucceeded(wb.val)
                       THEN LET found ==
                                  ExtractUrlsFromWaybackStdout(wb.val.stdout)
                            IN /\ wayback_urls' = found
                               /\ result' = [result EXCEPT !.external =
                                     ("wayback_binary" :>
                                        [rc |-> wb.val.rc,
                                         count |-> Len(found)]) @@ @]
                       ELSE UNCHANGED <<result, wayback_urls>>
    /\ UNCHANGED <<args, cdxResponse, uniq, urls_to_check, written,
                   checkerVars>>

\* if not wayback_urls: query the CDX API.
QueryCdx(resp) ==
    /\ mpc = "cdx"
    /\ IF wayback_urls = <<>>
       THEN /\ cdxResponse' = resp
            /\ wayback_urls' = GetWaybackUrlsViaCdx(resp)
            /\ result' = ("wayback_source" :> "cdx_api") @@ result
       ELSE UNCHANGED <<cdxResponse, wayback_urls, result>>
    /\ mpc' = "dedupe"
    /\ UNCHANGED <<args, toolRun, uniq, urls_to_check, written, error,
                   checkerVars>>

\* "limit & dedupe": result["wayback"] = uniq.
DedupeLimit ==
    /\ mpc = "dedupe"
    /\ uniq' = UniqLimit(wayback_urls, args.max_wayback)
    /\ result' = [result EXCEPT !.wayback = uniq']
    /\ mpc' = "filter"
    /\ UNCHANGED <<args, toolRun, cdxResponse, wayback_urls, urls_to_check,
                   written, error, checkerVars>>

\* urls_to_check, and the call of bulk_check_urls when it is not empty.
Filter ==
    LET sel == UrlsToCheck(uniq)
        us == [k \in 1..Len(sel.val) |-> sel.val[k].val]
    IN
    /\ mpc = "filter"
    /\ IF HasRaised(sel)
       THEN /\ Abort(sel.exc)
            /\ UNCHANGED <<urls_to_check, checkerVars>>
       ELSE /\ urls_to_check' = sel.val
            /\ UNCHANGED error
            /\ IF sel.val # <<>>
               THEN /\ mpc' = "check"
                    /\ urls' = us
                    /\ mainpc' = "call"
                    /\ pc' = [t \in DOMAIN us |-> "none"]
                    /\ headCalls' = [t \in DOMAIN us |-> 0]
                    /\ getCalls' = [t \in DOMAIN us |-> 0]
                    /\ headResult' = [t \in DOMAIN us |-> NoResult]
                    /\ getResult' = [t \in DOMAIN us |-> NoResult]
                    /\ acquired' = [t \in DOMAIN us |-> 0]
                    /\ released' = [t \in DOMAIN us |-> 0]
                    /\ outcome' = [t \in DOMAIN us |-> NoOutcome]
                    /\ UNCHANGED <<budget, semValue, waiters, results>>
               ELSE /\ mpc' = "links"
                    /\ UNCHANGED checkerVars
    /\ UNCHANGED <<args, result, toolRun, cdxResponse, wayback_urls, uniq,
                   written>>

\* result["wayback_check"] = checks, once run_until_complete returned.
StoreChecks ==
    /\ mpc = "check"
    /\ mainpc = "returned"
    /\ result' = [result EXCEPT !.wayback_check = results]
    /\ mpc' = "links"
    /\ UNCHANGED <<args, toolRun, cdxResponse, wayback_urls, uniq,
                   urls_to_check, written, error, checkerVars>>

\* result["basic_links_https"] = links[:200]; basic_html_links returns []
\* when the request fails.
Links(found) ==
    /\ mpc = "links"
    /\ result' = ("basic_links_https" :> found) @@ result
    /\ mpc' = "write"
    /\ UNCHANGED <<args, toolRun, cdxResponse, wayback_urls, uniq,
                   urls_to_check, written, error, checkerVars>>

\* "Save JSON": open() or json.dump may raise.
Write(ok) ==
    /\ mpc = "write"
    /\ IF ok
       THEN written' = result /\ mpc' = "done" /\ UNCHANGED error
       ELSE Abort("OSError") /\ UNCHANGED written
    /\ UNCHANGED <<args, result, toolRun, cdxResponse, wayback_urls, uniq,
                   urls_to_check, checkerVars>>

\* The whole run of main(), the checker included.
MainNext ==
    \/ \E failing \in DnsFailureSets : Dns(failing)
    \/ \E run \in MainToolRuns : Dig(run)
    \/ \E run \in MainToolRuns : WaybackBin(run)
    \/ \E resp \in MainCdxResponses : QueryCdx(resp)
    \/ DedupeLimit
    \/ Filter
    \/ Next
    \/ StoreChecks
    \/ \E found \in {<<>>, <<"/about">>} : Links(found)
    \/ \E ok \in BOOLEAN : Write(ok)

MainSpec == MainInit /\ [][MainNext]_vars

\* The Archive URL Source on its own: the binary, the CDX API and the
\* limit & dedupe loop, over every subprocess end and every CDX answer.
ArchiveInit ==
    /\ CheckerIdle
    /\ budget = 1
    /\ \E a \in ArgsSet : ~a.run_dig /\ MainStart(a, "wayback")

ArchiveNext ==
    \/ \E run \in ToolRuns : WaybackBin(run)
    \/ \E resp \in CdxResponses : QueryCdx(resp)
    \/ DedupeLimit

ArchiveSpec == ArchiveInit /\ [][ArchiveNext]_vars

\* ------------------------------------------------------------ properties
TypeOK ==
    /\ mainpc \in {"call", "gather", "returned"}
    /\ semValue \in 0..budget
    /\ \A t \in Tasks :
          pc[t] \in {"none", "created", "waiting", "woken", "head", "get",
                     "done"}

\* Tasks inside "async with semaphore", and tasks release() took a unit for.
Holders == { t \in Tasks : pc[t] \in {"head", "get"} }

Woken == { t \in Tasks : pc[t] = "woken" }

Finished(i) == pc[i] = "done"

HeadFailed(i) == IsException(headResult[i])

\* Number of outcomes of a list that carry the URL u.
OutcomesOf(list, u) == { k \in 1..Len(list) : list[k].url = u }

\* C1: bulk_check_urls returns exactly N outcomes; every input URL is the
\* 'url' of exactly one of them and every outcome's 'url' is an input URL.
C1_OneOutcomePerUrl ==
    mainpc = "returned" =>
        /\ Len(results) = N
        /\ \A i \in Tasks : Cardinality(OutcomesOf(results, urls[i])) = 1
        /\ \A k \in 1..Len(results) : \E i \in Tasks : results[k].url = urls[i]

C1_Witness ==
    /\ mainpc = "returned"
    /\ N > budget
    /\ \E i \in Tasks : IsResponse(headResult[i])
    /\ \E i \in Tasks : HeadFailed(i) /\ IsResponse(getResult[i])
    /\ \E i \in Tasks : HeadFailed(i) /\ IsException(getResult[i])

\* C2: at most `budget` tasks are inside "async with semaphore" at once.
C2_AtMostBudgetHolders == Cardinality(Holders) <= budget

C2_Witness ==
    /\ Cardinality(Holders) = budget
    /\ \E t \in Tasks : pc[t] = "waiting"
    /\ \E t \in Tasks : pc[t] = "get"

\* C3 as stated: whenever the HEAD request of a finished probe raised an
\* exception, of whichever kind, a GET request was issued for that probe.
C3_FallbackAfterAnyHeadFailure ==
    \A i \in Tasks : (Finished(i) /\ HeadFailed(i)) => getCalls[i] >= 1

\* C3 amended: a HEAD exception other than ClientResponseError makes the
\* probe issue the GET request at once, and the outcome is recorded only
\* after that GET ended; a ClientResponseError of the HEAD request is
\* recorded with the exception's status and text and no GET is issued.
C3_FallbackUnlessResponseError ==
    \A i \in Tasks :
        HeadFailed(i) =>
            IF headResult[i].kind = "ClientResponseError"
            THEN /\ getCalls[i] = 0
                 /\ Finished(i)
                 /\ outcome[i].status = headResult[i].status
                 /\ outcome[i].error = Str(headResult[i])
            ELSE /\ getCalls[i] = 1
                 /\ Finished(i) => getResult[i] # NoResult

C3_Witness ==
    /\ \E i \in Tasks :
          /\ Finished(i) /\ HeadFailed(i)
          /\ headResult[i].kind = "TimeoutError"
          /\ getResult[i] # NoResult
    /\ \E i \in Tasks :
          /\ Finished(i) /\ HeadFailed(i)
          /\ headResult[i].kind = "ClientResponseError"

\* C4: a probe whose HEAD request returned a response never issues a GET
\* request, and its outcome carries the HEAD response's status and final URL.
C4_NoGetAfterHeadSuccess ==
    \A i \in Tasks :
        IsResponse(headResult[i]) =>
            /\ getCalls[i] = 0
            /\ getResult[i] = NoResult
            /\ Finished(i)
            /\ outcome[i].url = urls[i]
            /\ outcome[i].status = headResult[i].status
            /\ outcome[i].final_url = headResult[i].url
            /\ "error" \notin DOMAIN outcome[i]

C4_Witness ==
    /\ mainpc = "returned"
    /\ \E i \in Tasks :
          /\ IsResponse(headResult[i])
          /\ headResult[i].url # urls[i]
          /\ headCalls[i] = 1
    /\ \E i \in Tasks : getCalls[i] = 1

\* C5: when the HEAD request of a probe failed and its GET request returned
\* a response, the outcome carries the GET response's status and final URL
\* and no error; with budget 2 and 5 URLs of which 3 fail on HEAD and answer
\* 200 on GET (the other 2 answering HEAD), the result has 5 outcomes, 3
\* with status 200 from the GET and 2 with the HEAD statuses.
FallbackOk(i) == HeadFailed(i) /\ IsResponse(getResult[i])

Fallback200 == { i \in Tasks : FallbackOk(i) /\ getResult[i].status = 200 }

HeadAnswered == { i \in Tasks : IsResponse(headResult[i]) }

ScenarioCase ==
    /\ mainpc = "returned"
    /\ urls = ScenarioUrls
    /\ budget = 2
    /\ Cardinality(Fallback200) = 3
    /\ Cardinality(HeadAnswered) = 2

C5_FallbackStatusRecorded ==
    /\ \A i \in Tasks :
          FallbackOk(i) =>
              /\ Finished(i)
              /\ outcome[i].url = urls[i]
              /\ outcome[i].status = getResult[i].status
              /\ outcome[i].status # None
              /\ outcome[i].final_url = getResult[i].url
              /\ "error" \notin DOMAIN outcome[i]
              /\ mainpc = "returned" =>
                    \E k \in 1..Len(results) : results[k] = outcome[i]
    /\ ScenarioCase =>
          /\ Len(results) = 5
          /\ Cardinality({ k \in 1..Len(results) :
                 \E i \in Fallback200 :
                    /\ results[k].url = urls[i]
                    /\ results[k].status = 200
                    /\ "error" \notin DOMAIN results[k] }) = 3
          /\ Cardinality({ k \in 1..Len(results) :
                 \E i \in HeadAnswered :
                    /\ results[k].url = urls[i]
                    /\ results[k].status = headResult[i].status }) = 2

C5_Witness ==
    /\ ScenarioCase
    /\ \A i \in Fallback200 : headResult[i].kind = "TimeoutError"

\* C6 as stated: when both the HEAD and the GET request of a probe failed,
\* the outcome has no status and a non-empty error description.
BothFailed(i) ==
    Finished(i) /\ HeadFailed(i) /\ IsException(getResult[i])

C6_BothFailNonEmptyError ==
    \A i \in Tasks :
        BothFailed(i) =>
            /\ outcome[i].status = None
            /\ "error" \in DOMAIN outcome[i]
            /\ outcome[i].error # ""

\* C7: every outcome has a status or an error entry, and an outcome without
\* a status (None) has an error entry.
HasStatus(o) == "status" \in DOMAIN o /\ o.status # None

HasError(o) == "error" \in DOMAIN o

C7_StatusOrError ==
    \A i \in Tasks :
        outcome[i] # NoOutcome =>
            /\ HasStatus(outcome[i]) \/ HasError(outcome[i])
            /\ ~HasStatus(outcome[i]) => HasError(outcome[i])

C7_Witness ==
    /\ \E i \in Tasks : IsResponse(headResult[i]) /\ Finished(i)
    /\ \E i \in Tasks :
          /\ Finished(i) /\ HeadFailed(i)
          /\ headResult[i].kind = "ClientResponseError"
          /\ HasStatus(outcome[i]) /\ HasError(outcome[i])
    /\ \E i \in Tasks : BothFailed(i) /\ ~HasStatus(outcome[i])

\* C8: a probe acquires one unit and releases it exactly once on every exit
\* path; a finished probe holds none; units are neither lost nor created;
\* when bulk_check_urls has returned all `budget` units are free again.
C8_UnitReleasedOnEveryPath ==
    /\ \A i \in Tasks :
          /\ released[i] <= acquired[i]
          /\ acquired[i] <= 1
          /\ Finished(i) => acquired[i] = 1 /\ released[i] = 1
          /\ i \in Holders <=> (acquired[i] = 1 /\ released[i] = 0)
    /\ mainpc # "call" =>
          semValue + Cardinality(Holders) + Cardinality(Woken) = budget
    /\ mainpc = "returned" => semValue = budget

C8_Witness ==
    /\ mainpc = "returned"
    /\ N > budget
    /\ \E i \in Tasks : BothFailed(i) /\ getResult[i].kind = "TimeoutError"
    /\ \E i \in Tasks : HeadFailed(i) /\ getCalls[i] = 0
    /\ \E i \in Tasks : IsResponse(headResult[i]) \/ FallbackOk(i)

\* C9: bulk_check_urls has returned only if every probe task is done and
\* has recorded its outcome; the result is never partial.
C9_ReturnAfterAllProbes ==
    mainpc = "returned" =>
        /\ \A i \in Tasks : Finished(i) /\ outcome[i] # NoOutcome
        /\ Len(results) = N
        /\ \A k \in 1..Len(results) : results[k] # NoOutcome

C9_Witness ==
    /\ mainpc = "returned"
    /\ N >= 2
    /\ \E i \in Tasks : BothFailed(i)
    /\ \E i \in Tasks : HasStatus(outcome[i])

\* C10: under fairness every probe that waits for a unit acquires one,
\* every probe completes and bulk_check_urls returns.
C10_NoStarvation ==
    /\ \A i \in TaskIds :
          (i \in Tasks /\ pc[i] = "waiting")
              ~> (i \in Tasks /\ pc[i] \in {"head", "get", "done"})
    /\ \A i \in TaskIds :
          (i \in Tasks /\ mainpc = "gather") ~> (i \in Tasks /\ Finished(i))
    /\ <>(mainpc = "returned")

C10_Witness ==
    /\ Cardinality(Holders) = budget
    /\ \E i \in Tasks : pc[i] = "waiting"
    /\ \E j \in Tasks :
          /\ pc[j] = "get"
          /\ headResult[j].kind = "TimeoutError"
    /\ \E j \in Tasks : BothFailed(j) /\ getResult[j].kind = "TimeoutError"

\* C16: a probe issues at most one HEAD and at most one GET request, the
\* GET only after its own HEAD request failed; the outcome of a probe is a
\* function of its own URL and of what its own requests ended with, and a
\* step of one probe never issues a request for, or touches the outcome
\* of, another probe.
ExpectedOutcome(i) ==
    IF IsResponse(headResult[i]) THEN HeadOkOutcome(urls[i], headResult[i])
    ELSE IF IsClientResponseError(headResult[i])
         THEN HeadResponseErrorOutcome(urls[i], headResult[i])
    ELSE IF IsResponse(getResult[i]) THEN GetOkOutcome(urls[i], getResult[i])
    ELSE GetErrorOutcome(urls[i], getResult[i])

AtMostTwoRequests ==
    \A i \in Tasks :
        /\ headCalls[i] <= 1
        /\ getCalls[i] <= 1
        /\ getCalls[i] = 1 => (headCalls[i] = 1 /\ HeadFailed(i))
        /\ Finished(i) => outcome[i] = ExpectedOutcome(i)

OneProbePerStep ==
    \A i, j \in Tasks :
        (i # j /\ <<headResult[i], getResult[i]>>' # <<headResult[i], getResult[i]>>)
            => /\ headCalls'[j] = headCalls[j]
               /\ getCalls'[j] = getCalls[j]
               /\ outcome'[j] = outcome[j]
               /\ headResult'[j] = headResult[j]
               /\ getResult'[j] = getResult[j]

C16_SingleFallbackNoRetry == [](AtMostTwoRequests) /\ [][OneProbePerStep]_vars

C16_Witness ==
    /\ mainpc = "returned"
    /\ \E i, j \in Tasks :
          /\ i # j
          /\ BothFailed(i) /\ headCalls[i] = 1 /\ getCalls[i] = 1
          /\ IsResponse(headResult[j]) /\ headCalls[j] = 1 /\ getCalls[j] = 0

\* C17: a request is in flight only while its probe owns a unit (issued
\* after the acquire, ended before the release), so the requests in flight,
\* HEAD and GET together over all probes, never exceed the budget.
RequestsInFlight(i) ==
    (headCalls[i] - (IF headResult[i] = NoResult THEN 0 ELSE 1))
    + (getCalls[i] - (IF getResult[i] = NoResult THEN 0 ELSE 1))

RECURSIVE TotalInFlight(_)
TotalInFlight(n) ==
    IF n = 0 THEN 0 ELSE RequestsInFlight(n) + TotalInFlight(n - 1)

C17_RequestsInsideBudget ==
    /\ \A i \in Tasks :
          /\ RequestsInFlight(i) \in {0, 1}
          /\ headCalls[i] + getCalls[i] > 0 => acquired[i] = 1
          /\ RequestsInFlight(i) = 1 => released[i] = 0
          /\ released[i] >= 1 => RequestsInFlight(i) = 0
    /\ mainpc # "call" => TotalInFlight(N) <= budget

C17_Witness ==
    /\ TotalInFlight(N) = budget
    /\ N > budget
    /\ \E i \in Tasks : pc[i] = "get" /\ RequestsInFlight(i) = 1
    /\ \E i \in Tasks : pc[i] = "head" /\ RequestsInFlight(i) = 1
    /\ \E i \in Tasks : pc[i] = "waiting" /\ headCalls[i] = 0

\* C18: the list bulk_check_urls returns is in input order: its i-th
\* outcome is the value of the i-th task and carries the i-th input URL.
C18_ResultsInInputOrder ==
    mainpc = "returned" =>
        /\ DOMAIN results = Tasks
        /\ \A i \in Tasks : results[i] = outcome[i] /\ results[i].url = urls[i]

C18_Witness ==
    /\ mainpc = "returned"
    /\ N > budget
    /\ BothFailed(1)
    /\ IsResponse(headResult[N])
    /\ results[1] # results[N]

\* -------------------------------------------------- properties of main()
M == args.max_wayback

\* The source has been chosen: the binary ran if requested, the CDX API was
\* queried if needed.
SourceChosen == mpc \in {"dedupe", "filter"}

Deduped == mpc = "filter"

NoDuplicates(list) ==
    \A j, k \in 1..Len(list) : j # k => list[j] # list[k]

\* The elements of a list at their first occurrence, in order.
RECURSIVE FirstOccurrences(_, _)
FirstOccurrences(list, n) ==
    IF n = 0 THEN <<>>
    ELSE IF \E j \in 1..(n - 1) : list[j] = list[n]
         THEN FirstOccurrences(list, n - 1)
    ELSE Append(FirstOccurrences(list, n - 1), list[n])

Min(a, b) == IF a <= b THEN a ELSE b

ExampleCandidates == <<JStr("http://a/"), JStr("http://a/"), JStr("http://b/")>>

\* C11: for every candidate sequence and every positive max count, the
\* archive URL list of the report has no duplicates, has at most max count
\* entries and is the first min(max count, number of distinct URLs)
\* distinct candidates in first-occurrence order; ["http://a/",
\* "http://a/", "http://b/"] yields ["http://a/", "http://b/"].
C11_DedupedCappedInOrder ==
    Deduped =>
        LET distinct == FirstOccurrences(wayback_urls, Len(wayback_urls)) IN
        /\ result.wayback = uniq
        /\ NoDuplicates(uniq)
        /\ Len(uniq) <= M
        /\ uniq = SubSeq(distinct, 1, Min(M, Len(distinct)))
        /\ (wayback_urls = ExampleCandidates /\ M >= 2)
              => uniq = <<JStr("http://a/"), JStr("http://b/")>>

C11_Witness ==
    /\ Deduped
    /\ wayback_urls = ExampleCandidates
    /\ M = 2
    /\ result.wayback = <<JStr("http://a/"), JStr("http://b/")>>

\* C12 as stated: a 200 answer holding a list of records, each a bare
\* string or a single-element array, yields one URL per record (duplicates
\* collapsed), a leading header record of either shape being skipped.
WellFormedRecord(rec) ==
    \/ IsStr(rec)
    \/ IsList(rec) /\ Len(rec.val) = 1 /\ IsStr(rec.val[1])

RecordUrl(rec) == IF IsStr(rec) THEN rec ELSE rec.val[1]

IsHeaderRecord(rec) == RecordUrl(rec) = JStr("original")

IsRecordList(resp) ==
    /\ resp.kind = "http"
    /\ resp.status_code = 200
    /\ resp.body.kind = "json"
    /\ IsList(resp.body.data)

WellFormedAnswer(resp) ==
    /\ IsRecordList(resp)
    /\ \A k \in 1..Len(resp.body.data.val) :
          WellFormedRecord(resp.body.data.val[k])

UrlsOfRecords(recs) ==
    LET body == IF recs # <<>> /\ IsHeaderRecord(recs[1]) THEN Tail(recs)
                ELSE recs
        list == [k \in 1..Len(body) |-> RecordUrl(body[k])]
    IN FirstOccurrences(list, Len(list))

CdxQueried == cdxResponse # NotQueried

C12_OneUrlPerRecordHeaderSkipped ==
    (SourceChosen /\ CdxQueried /\ WellFormedAnswer(cdxResponse))
        => wayback_urls = UrlsOfRecords(cdxResponse.body.data.val)

\* C13 as stated: a network failure, a non-200 status or a parse failure,
\* a malformed record anywhere in the answer included, makes
\* get_wayback_urls_via_cdx return the empty sequence.
FailedAnswer(resp) == ~WellFormedAnswer(resp)

C13_FailureYieldsEmpty ==
    (SourceChosen /\ CdxQueried /\ FailedAnswer(cdxResponse))
        => wayback_urls = <<>>

\* C14 as stated: whatever fails (DNS lookups, external tools, the archive
\* source, probes), main never ends with an exception before the write
\* step; only the write step may end the run with an error.
C14_OnlyWriteAborts == mpc = "aborted" => error.step = "write"

\* C15: the binary's URLs are the candidates exactly when the binary was
\* requested, exited with a status >= 0 and printed at least one URL; in
\* every other case (not requested, not found = rc -1, timeout = rc -2,
\* negative status, empty output, output without a URL) the CDX API is
\* queried and its URLs are the candidates; the API is never queried when
\* the binary yielded a URL.
BinaryRequested == args.use_wayback_bin

BinaryExited == BinaryRequested /\ toolRun.kind = "exit"

BinaryUrls == ExtractUrlsFromWaybackStdout(toolRun.stdout)

BinaryYielded ==
    /\ BinaryExited
    /\ toolRun.rc >= 0
    /\ toolRun.stdout # ""
    /\ BinaryUrls # <<>>

BinaryUsed == "wayback_binary" \in DOMAIN result.external

C15_BinaryElseCdx ==
    SourceChosen =>
        /\ CdxQueried <=> ~BinaryYielded
        /\ CdxQueried <=> "wayback_source" \in DOMAIN result
        /\ BinaryYielded => (BinaryUsed /\ wayback_urls = BinaryUrls)
        /\ ~BinaryYielded =>
              wayback_urls = GetWaybackUrlsViaCdx(cdxResponse)
        /\ BinaryUsed <=>
              (BinaryExited /\ toolRun.rc >= 0 /\ toolRun.stdout # "")
        /\ (BinaryRequested /\ toolRun.kind = "FileNotFoundError")
              => RunExternalTool(<<"waybackurls", Domain>>, toolRun).val.rc = -1
        /\ (BinaryRequested /\ toolRun.kind = "TimeoutExpired")
              => RunExternalTool(<<"waybackurls", Domain>>, toolRun).val.rc = -2

C15_Witness ==
    /\ SourceChosen
    /\ BinaryRequested
    /\ toolRun.kind = "TimeoutExpired"
    /\ CdxQueried
    /\ wayback_urls # <<>>

\* C19: in the report the liveness list has exactly one outcome for each
\* archive URL that starts with http:// or https:// and none for any other
\* URL; the other URLs stay in the archive list; when no archive URL has an
\* accepted scheme the checker is not run and the liveness list is empty.
HasHttpScheme(v) ==
    IsStr(v) /\ (StartsWith(v.val, "http://") \/ StartsWith(v.val, "https://"))

Checked == mpc \in {"links", "write", "done"}

C19_OneOutcomePerHttpUrl ==
    Checked =>
        /\ result.wayback = uniq
        /\ \A k \in 1..Len(result.wayback) :
              Cardinality(OutcomesOf(result.wayback_check,
                                     result.wayback[k].val))
                 = IF HasHttpScheme(result.wayback[k]) THEN 1 ELSE 0
        /\ \A k \in 1..Len(result.wayback_check) :
              \E j \in 1..Len(result.wayback) :
                 /\ HasHttpScheme(result.wayback[j])
                 /\ result.wayback[j].val = result.wayback_check[k].url
        /\ (\A k \in 1..Len(result.wayback) :
               ~HasHttpScheme(result.wayback[k]))
              => (mainpc = "idle" /\ result.wayback_check = <<>>)
        /\ mpc = "done" => written = result

C19_Witness ==
    /\ mpc = "done"
    /\ written.wayback = <<JStr("ftp://c/"), JStr("https://b/")>>
    /\ Len(written.wayback_check) = 1
    /\ written.wayback_check[1].url = "https://b/"
====
